---- MODULE Spec2Model ----
(***************************************************************************)
(* Model of the Capsule Memory Python SDK                                  *)
(* (packages/python/capsule_memory/__init__.py): the CapsuleMemoryClient,  *)
(* its request executor and its seven public methods.                      *)
(*                                                                         *)
(* Python / JSON values are tagged records [t, v]:                         *)
(*   None, Bool(b), Num(n), Str(s), List(<<..>>), Map(f)                   *)
(* Floats are carried in tenths (Num(6) is 0.6, Num(7) is 0.7).            *)
(* The strings the code slices or concatenates (base URL, path, candidate  *)
(* id) are sequences of tokens, "/" being a token of its own.              *)
(***************************************************************************)
EXTENDS Integers, Sequences, FiniteSets, TLC

VARIABLES
    ctor,           \* the arguments the constructor was called with
    self,           \* the client object: its six private attributes
    calls,          \* public method calls made so far
    sent,           \* one entry per request handed to a session so far:
                    \* the session object used and the subject header sent
    last_call,      \* the latest call: [name, args]
    last_request,   \* the requests the latest call handed to the session
    last_response,  \* what the session answered to the latest call
    outcome         \* how the latest call ended: a return or a raise

vars == <<ctor, self, calls, sent, last_call, last_request, last_response, outcome>>

-----------------------------------------------------------------------------
(* Bounds of the model *)

MaxCalls == 3
MaxItems == 2

-----------------------------------------------------------------------------
(* Python values *)

None == [t |-> "null"]
Bool(b) == [t |-> "bool", v |-> b]
Num(n) == [t |-> "num", v |-> n]
Str(s) == [t |-> "str", v |-> s]
List(s) == [t |-> "list", v |-> s]
Map(f) == [t |-> "map", v |-> f]

EmptyMap == [k \in {} |-> None]

\* bool(x): None, False, 0, "", [] and {} are falsy
Truthy(x) ==
    CASE x.t = "null" -> FALSE
      [] x.t = "bool" -> x.v
      [] x.t = "num" -> x.v # 0
      [] x.t = "str" -> x.v # ""
      [] x.t = "list" -> Len(x.v) # 0
      [] x.t = "map" -> DOMAIN x.v # {}
      [] OTHER -> TRUE

\* a or b
PyOr(a, b) == IF Truthy(a) THEN a ELSE b

\* isinstance(x, dict)
IsDict(x) == x.t = "map"

\* key in d
HasKey(d, key) == key \in DOMAIN d.v

\* d.get(key, default)
DictGet(d, key, default) == IF key \in DOMAIN d.v THEN d.v[key] ELSE default

\* {**a, **b}: on a shared key the later mapping wins
DictMerge(a, b) == Map(b.v @@ a.v)

\* s.rstrip('/')
RECURSIVE rstrip(_)
rstrip(s) ==
    IF Len(s) > 0 /\ s[Len(s)] = "/" THEN rstrip(SubSeq(s, 1, Len(s) - 1)) ELSE s

\* s.startswith('/')
startswith(s) == Len(s) > 0 /\ s[1] = "/"

-----------------------------------------------------------------------------
(* Outcomes of a call *)

Return(value) == [kind |-> "return", exc |-> "", value |-> value]
Raise(exc, value) == [kind |-> "raise", exc |-> exc, value |-> value]

NoCall == [name |-> "", args |-> None]
NoOutcome == [kind |-> "none", exc |-> "", value |-> None]

-----------------------------------------------------------------------------
(* Responses of the session.  A response is either a transport failure     *)
(* (session.request raises) or an HTTP response [status_code, text]; text  *)
(* is the body: a JSON document, given by its value, or a text that is no  *)
(* JSON, for which response.json() raises.                                 *)

TransportFailure == [kind |-> "raise", status_code |-> 0, text |-> None]
Http(status, text) == [kind |-> "http", status_code |-> status, text |-> text]
NotJson(s) == [t |-> "notjson", v |-> s]

-----------------------------------------------------------------------------
(* CapsuleMemoryClient *)

InternalSession == Str("requests.Session()")

CapsuleMemoryClient(base_url, api_key, org_id, project_id, default_subject_id, session) ==
    [ _base |-> rstrip(base_url),
      _api_key |-> api_key,
      _org |-> org_id,
      _project |-> project_id,
      _subject |-> default_subject_id,
      _session |-> PyOr(session, InternalSession) ]

_headers(this, subject_id) ==
    [ ContentType |-> Str("application/json"),
      XCapsuleKey |-> this._api_key,
      XCapsuleOrg |-> this._org,
      XCapsuleProject |-> this._project,
      XCapsuleSubject |-> PyOr(subject_id, this._subject) ]

Timeout == 30

\* the one session.request(...) call of _request
SessionRequest(this, method, path, json, params, subject_id) ==
    [ session |-> this._session,
      method |-> method,
      url |-> this._base \o (IF startswith(path) THEN path ELSE <<"/">> \o path),
      headers |-> _headers(this, subject_id),
      json |-> json,
      params |-> params,
      timeout |-> Timeout ]

\* Unwrap with the envelope test dropped: payload.get('data') for any mapping
UnwrapAnyMapping(payload) ==
    IF IsDict(payload) THEN DictGet(payload, "data", None) ELSE payload

\* the value _request returns for a response that passed the status check
Unwrap(payload) ==
    IF IsDict(payload) /\ HasKey(payload, "data")
    THEN DictGet(payload, "data", None)
    ELSE payload

\* HandleResponse with the status test off by one: > 400 for >= 400
HandleResponseAbove400(resp) ==
    IF resp.kind = "raise"
    THEN Raise("RequestException", None)
    ELSE IF resp.status_code > 400
    THEN Raise("RuntimeError",
               <<"Capsule request failed (", resp.status_code, "): ", resp.text>>)
    ELSE IF resp.text.t = "notjson"
    THEN Raise("JSONDecodeError", None)
    ELSE Return(Unwrap(resp.text))

\* what _request does with the session's answer
HandleResponse(resp) ==
    IF resp.kind = "raise"
    THEN Raise("RequestException", None)
    ELSE IF resp.status_code >= 400
    THEN Raise("RuntimeError",
               <<"Capsule request failed (", resp.status_code, "): ", resp.text>>)
    ELSE IF resp.text.t = "notjson"
    THEN Raise("JSONDecodeError", None)
    ELSE Return(Unwrap(resp.text))

\* _request retrying once when the session raises
_requestRetrying(this, method, path, json, params, subject_id, resp) ==
    LET req == SessionRequest(this, method, path, json, params, subject_id)
    IN  [ self |-> this,
          requests |-> IF resp.kind = "raise" THEN <<req, req>> ELSE <<req>>,
          outcome |-> HandleResponse(resp) ]

\* _request keeping the subject of the call as the client's subject
_requestKeepingSubject(this, method, path, json, params, subject_id, resp) ==
    [ self |-> [this EXCEPT !._subject = PyOr(subject_id, this._subject)],
      requests |-> <<SessionRequest(this, method, path, json, params, subject_id)>>,
      outcome |-> HandleResponse(resp) ]

\* _request: the client object afterwards, the requests handed to the
\* session, and the outcome
_request(this, method, path, json, params, subject_id, resp) ==
    [ self |-> this,
      requests |-> <<SessionRequest(this, method, path, json, params, subject_id)>>,
      outcome |-> HandleResponse(resp) ]

-----------------------------------------------------------------------------
(* Core operations *)

\* store_memory sending the default pinned=False whatever the argument
store_memoryUnpinned(this, content, pinned, kwargs, resp) ==
    _request(this, "POST", <<"/", "v1", "/", "memories">>,
             DictMerge(Map([content |-> content, pinned |-> Bool(FALSE)]), kwargs),
             None, None, resp)

store_memory(this, content, pinned, kwargs, resp) ==
    _request(this, "POST", <<"/", "v1", "/", "memories">>,
             DictMerge(Map([content |-> content, pinned |-> pinned]), kwargs),
             None, None, resp)

list_memories(this, limit, subject_id, filters, resp) ==
    _request(this, "GET", <<"/", "v1", "/", "memories">>,
             None, DictMerge(Map([limit |-> limit]), filters), subject_id, resp)

search(this, query, subject_id, options, resp) ==
    _request(this, "POST", <<"/", "v1", "/", "memories", "/", "search">>,
             DictMerge(Map([query |-> query]), options), None, subject_id, resp)

-----------------------------------------------------------------------------
(* Capture pipeline helpers *)

\* a comprehension that skips the elements that raise
ListComprehensionSkipping(each) ==
    LET ok == SelectSeq(each, LAMBDA e : e.kind # "raise")
    IN  Return(List([i \in 1..Len(ok) |-> ok[i].value]))

\* [f(x) for x in s], given each f(x): the list of the values, or the first
\* raise in the order of s
ListComprehension(each) ==
    LET bad == {i \in 1..Len(each) : each[i].kind = "raise"}
        first == CHOOSE i \in bad : \A j \in bad : i <= j
    IN  IF bad # {} THEN each[first]
        ELSE Return(List([i \in 1..Len(each) |-> each[i].value]))

\* d[key] for the first of keys that d lacks: the KeyError it raises
FirstMissing(d, keys) ==
    LET missing == {i \in 1..Len(keys) : ~HasKey(d, keys[i])}
    IN  keys[CHOOSE i \in missing : \A j \in missing : i <= j]

ResultRequired == <<"status", "recommended", "score">>

\* CaptureScoreResult(...) built from one element of `results`
CaptureScoreResult(result) ==
    IF ~IsDict(result) THEN Raise("AttributeError", "get")
    ELSE IF \E i \in 1..Len(ResultRequired) : ~HasKey(result, ResultRequired[i])
    THEN Raise("KeyError", FirstMissing(result, ResultRequired))
    ELSE Return([ event_id |-> DictGet(result, "eventId", None),
                  candidate_id |-> DictGet(result, "candidateId", None),
                  status |-> result.v["status"],
                  recommended |-> result.v["recommended"],
                  score |-> result.v["score"],
                  reasons |-> DictGet(result, "reasons", List(<<>>)),
                  memory_id |-> DictGet(result, "memoryId", None) ])

DefaultThreshold == 6

\* the threshold of the CaptureScoreResponse
ScoreThreshold(payload, threshold) ==
    DictGet(payload, "threshold", PyOr(threshold, Num(DefaultThreshold)))

\* lines 135-147: the CaptureScoreResponse built from the unwrapped payload
CaptureScoreResponse(payload, threshold) ==
    IF ~IsDict(payload) THEN Raise("AttributeError", "get")
    ELSE LET listed == DictGet(payload, "results", List(<<>>))
             results == ListComprehension(
                 [i \in 1..Len(listed.v) |-> CaptureScoreResult(listed.v[i])])
         IN  IF listed.t # "list" THEN Raise("TypeError", "results")
             ELSE IF results.kind = "raise" THEN results
             ELSE Return([ threshold |-> ScoreThreshold(payload, threshold),
                           results |-> results.value ])

score_capture(this, events, threshold, subject_id, resp) ==
    LET r == _request(this, "POST", <<"/", "v1", "/", "memories", "/", "capture">>,
                      Map([events |-> List(events), threshold |-> threshold]),
                      None, subject_id, resp)
    IN  IF r.outcome.kind = "raise" THEN r
        ELSE [r EXCEPT !.outcome = CaptureScoreResponse(r.outcome.value, threshold)]

CandidateRequired ==
    <<"id", "role", "content", "status", "score", "threshold", "recommended">>

\* CaptureCandidate with item.get("autoAccepted") and item.get("metadata"),
\* their defaults left out
CaptureCandidateNoDefaults(item) ==
    IF ~IsDict(item) THEN Raise("TypeError", "item")
    ELSE IF \E i \in 1..Len(CandidateRequired) : ~HasKey(item, CandidateRequired[i])
    THEN Raise("KeyError", FirstMissing(item, CandidateRequired))
    ELSE Return([ id |-> item.v["id"],
                  role |-> item.v["role"],
                  content |-> item.v["content"],
                  status |-> item.v["status"],
                  score |-> item.v["score"],
                  threshold |-> item.v["threshold"],
                  recommended |-> item.v["recommended"],
                  category |-> DictGet(item, "category", Str("")),
                  reasons |-> DictGet(item, "reasons", List(<<>>)),
                  metadata |-> DictGet(item, "metadata", None),
                  memory_id |-> DictGet(item, "memoryId", None),
                  auto_accepted |-> DictGet(item, "autoAccepted", None),
                  auto_decision_reason |-> DictGet(item, "autoDecisionReason", None),
                  created_at |-> DictGet(item, "createdAt", Str("")),
                  updated_at |-> DictGet(item, "updatedAt", Str("")) ])

\* CaptureCandidate(...) built from one element of `items`
CaptureCandidate(item) ==
    IF ~IsDict(item) THEN Raise("TypeError", "item")
    ELSE IF \E i \in 1..Len(CandidateRequired) : ~HasKey(item, CandidateRequired[i])
    THEN Raise("KeyError", FirstMissing(item, CandidateRequired))
    ELSE Return([ id |-> item.v["id"],
                  role |-> item.v["role"],
                  content |-> item.v["content"],
                  status |-> item.v["status"],
                  score |-> item.v["score"],
                  threshold |-> item.v["threshold"],
                  recommended |-> item.v["recommended"],
                  category |-> DictGet(item, "category", Str("")),
                  reasons |-> DictGet(item, "reasons", List(<<>>)),
                  metadata |-> DictGet(item, "metadata", Map(EmptyMap)),
                  memory_id |-> DictGet(item, "memoryId", None),
                  auto_accepted |-> DictGet(item, "autoAccepted", Bool(FALSE)),
                  auto_decision_reason |-> DictGet(item, "autoDecisionReason", None),
                  created_at |-> DictGet(item, "createdAt", Str("")),
                  updated_at |-> DictGet(item, "updatedAt", Str("")) ])

\* lines 162-181: the list of CaptureCandidate built from the unwrapped payload
CaptureCandidates(payload) ==
    IF ~IsDict(payload) THEN Raise("AttributeError", "get")
    ELSE LET listed == DictGet(payload, "items", List(<<>>))
         IN  IF listed.t # "list" THEN Raise("TypeError", "items")
             ELSE ListComprehension(
                 [i \in 1..Len(listed.v) |-> CaptureCandidate(listed.v[i])])

list_capture_candidates(this, status, limit, subject_id, resp) ==
    LET r == _request(this, "GET", <<"/", "v1", "/", "memories", "/", "capture">>,
                      None, Map([status |-> status, limit |-> limit]),
                      subject_id, resp)
    IN  IF r.outcome.kind = "raise" THEN r
        ELSE [r EXCEPT !.outcome = CaptureCandidates(r.outcome.value)]

CapturePath(candidate_id, verb) ==
    <<"/", "v1", "/", "memories", "/", "capture", "/">> \o candidate_id \o <<"/", verb>>

\* approve_capture_candidate sending the overrides as given
approve_capture_candidateAsGiven(this, candidate_id, overrides, subject_id, resp) ==
    _request(this, "POST", CapturePath(candidate_id, "approve"),
             Map([memory |-> overrides]), None, subject_id, resp)

approve_capture_candidate(this, candidate_id, overrides, subject_id, resp) ==
    _request(this, "POST", CapturePath(candidate_id, "approve"),
             Map([memory |-> PyOr(overrides, None)]), None, subject_id, resp)

reject_capture_candidate(this, candidate_id, reason, subject_id, resp) ==
    _request(this, "POST", CapturePath(candidate_id, "reject"),
             Map([reason |-> reason]), None, subject_id, resp)

-----------------------------------------------------------------------------
(* Inputs: constructor arguments, call arguments, responses *)

BaseUrls == {<<"https://capsule.test">>, <<"https://capsule.test", "/", "/">>}
GivenSession == Str("session-1")

CtorArgs ==
    [ base_url : BaseUrls,
      api_key : {Str("key-1")},
      org_id : {Str("org-1")},
      project_id : {Str("proj-1")},
      default_subject_id : {Str("alice")},
      session : {None, GivenSession} ]

Subjects == {None, Str(""), Str("bob")}
CandidateIds == {<<"abc123">>, <<"x", "/", "y">>}

Memory == Map([id |-> Str("m1")])

\* bodies of any shape: not JSON, scalars, lists, mappings with and without `data`
GenericDocs ==
    { NotJson("oops"), NotJson(""), None, Num(1), List(<<Num(1)>>),
      Map(EmptyMap), Memory, Map([items |-> List(<<>>), threshold |-> Num(5)]),
      Map([data |-> None]), Map([data |-> Num(1)]), Map([data |-> List(<<Memory>>)]),
      Map([data |-> Memory]), Map([data |-> Memory, meta |-> Num(1)]) }

Statuses == {200, 399, 400, 404, 599}

Responses(docs) == {TransportFailure} \cup {Http(s, d) : s \in Statuses, d \in docs}

\* with or without the {"data": ...} envelope
Enveloped(docs) == docs \cup {Map([data |-> d]) : d \in docs}

\* a mapping without one of its keys
Without(m, key) == Map([k \in DOMAIN m.v \ {key} |-> m.v[k]])

Range(s) == {s[i] : i \in 1..Len(s)}

SeqsUpTo(S, n) == UNION {[1..k -> S] : k \in 0..n}

\* elements of `results`: well-formed ones, and ones lacking a required field
GoodResults ==
    { Map([status |-> Str("pending"), recommended |-> Bool(FALSE), score |-> Num(3)]),
      Map([status |-> Str("accepted"), recommended |-> Bool(TRUE), score |-> Num(9),
           eventId |-> Str("e1"), candidateId |-> Str("c1"), memoryId |-> Str("m1"),
           reasons |-> List(<<Str("long")>>)]) }

BadResults ==
    {Without(Map([status |-> Str("pending"), recommended |-> Bool(FALSE), score |-> Num(4)]), k) :
        k \in Range(ResultRequired)}

ScoreDocs ==
    Enveloped(
        { Map(EmptyMap), Map([threshold |-> Num(5)]), Map([threshold |-> Num(0)]) }
        \cup {Map([results |-> List(rs)]) : rs \in SeqsUpTo(GoodResults \cup BadResults, MaxItems)}
        \cup {Map([results |-> List(rs), threshold |-> Num(5)]) :
                 rs \in SeqsUpTo(GoodResults \cup BadResults, MaxItems)})
    \cup {NotJson("oops"), None, List(<<>>)}

Events == {<<>>, <<Map([role |-> Str("user"), content |-> Str("hi")])>>}

ScoreArgs ==
    [ events : Events, threshold : {None, Num(0), Num(7)}, subject_id : Subjects ]

\* elements of `items`: well-formed ones, and ones lacking a required field
BareCandidate(id) ==
    Map([id |-> Str(id), role |-> Str("user"), content |-> Str("likes tea"),
         status |-> Str("pending"), score |-> Num(8), threshold |-> Num(6),
         recommended |-> Bool(TRUE)])

FullCandidate ==
    Map([id |-> Str("c3"), role |-> Str("user"), content |-> Str("likes tea"),
         status |-> Str("approved"), score |-> Num(8), threshold |-> Num(6),
         recommended |-> Bool(TRUE), category |-> Str("preference"),
         reasons |-> List(<<Str("long")>>), metadata |-> Map([k |-> Str("v")]),
         memoryId |-> Str("m1"), autoAccepted |-> Bool(TRUE),
         autoDecisionReason |-> Str("score"), createdAt |-> Str("t0"),
         updatedAt |-> Str("t1")])

GoodCandidates == {BareCandidate("c1"), BareCandidate("c2"), FullCandidate}

BadCandidates == {Without(BareCandidate("c4"), k) : k \in Range(CandidateRequired)}

CandidateDocs ==
    Enveloped(
        { Map(EmptyMap) }
        \cup {Map([items |-> List(xs)]) : xs \in SeqsUpTo(GoodCandidates \cup BadCandidates, MaxItems)})
    \cup {NotJson("oops"), None, List(<<>>)}

CandidateArgs ==
    [ status : {Str("pending"), Str("approved")}, limit : {Num(50)}, subject_id : Subjects ]

StoreArgs ==
    [ content : {Str("hello"), Str("note")},
      pinned : {Bool(FALSE), Bool(TRUE)},
      kwargs : { Map(EmptyMap), Map([tags |-> List(<<Str("a")>>)]),
                 Map([subject_id |-> Str("bob")]),
                 Map([subject_id |-> Str("bob"), tags |-> List(<<Str("a")>>)]) } ]

ListArgs ==
    [ limit : {Num(50), Num(0)}, subject_id : Subjects,
      filters : {Map(EmptyMap), Map([pinned |-> Bool(TRUE)])} ]

SearchArgs ==
    [ query : {Str("tea")}, subject_id : Subjects,
      options : {Map(EmptyMap), Map([limit |-> Num(5)])} ]

ApproveArgs ==
    [ candidate_id : CandidateIds,
      overrides : {None, Map(EmptyMap), Map([pinned |-> Bool(TRUE)])},
      subject_id : Subjects ]

RejectArgs ==
    [ candidate_id : CandidateIds, reason : {None, Str("noise")}, subject_id : Subjects ]

-----------------------------------------------------------------------------
(* State machine *)

Init ==
    /\ ctor \in CtorArgs
    /\ self = CapsuleMemoryClient(ctor.base_url, ctor.api_key, ctor.org_id,
                                  ctor.project_id, ctor.default_subject_id, ctor.session)
    /\ calls = 0
    /\ sent = <<>>
    /\ last_call = NoCall
    /\ last_request = <<>>
    /\ last_response = TransportFailure
    /\ outcome = NoOutcome

\* what the log keeps of each request
Wire(requests) ==
    [i \in 1..Len(requests) |->
        [session |-> requests[i].session, subject |-> requests[i].headers.XCapsuleSubject]]

\* one public method call: r is what the method did, given the answer resp
Call(name, args, resp, r) ==
    /\ self' = r.self
    /\ calls' = calls + 1
    /\ sent' = sent \o Wire(r.requests)
    /\ last_call' = [name |-> name, args |-> args]
    /\ last_request' = r.requests
    /\ last_response' = resp
    /\ outcome' = r.outcome
    /\ UNCHANGED ctor

StoreMemory(Args, Resps) ==
    \E a \in Args, resp \in Resps :
        Call("store_memory", a, resp,
             store_memory(self, a.content, a.pinned, a.kwargs, resp))

ListMemories(Args, Resps) ==
    \E a \in Args, resp \in Resps :
        Call("list_memories", a, resp,
             list_memories(self, a.limit, a.subject_id, a.filters, resp))

Search(Args, Resps) ==
    \E a \in Args, resp \in Resps :
        Call("search", a, resp,
             search(self, a.query, a.subject_id, a.options, resp))

ScoreCapture(Args, Resps) ==
    \E a \in Args, resp \in Resps :
        Call("score_capture", a, resp,
             score_capture(self, a.events, a.threshold, a.subject_id, resp))

ListCaptureCandidates(Args, Resps) ==
    \E a \in Args, resp \in Resps :
        Call("list_capture_candidates", a, resp,
             list_capture_candidates(self, a.status, a.limit, a.subject_id, resp))

ApproveCaptureCandidate(Args, Resps) ==
    \E a \in Args, resp \in Resps :
        Call("approve_capture_candidate", a, resp,
             approve_capture_candidate(self, a.candidate_id, a.overrides, a.subject_id, resp))

RejectCaptureCandidate(Args, Resps) ==
    \E a \in Args, resp \in Resps :
        Call("reject_capture_candidate", a, resp,
             reject_capture_candidate(self, a.candidate_id, a.reason, a.subject_id, resp))

\* Spec: a client and one call on it, over the whole of the inputs.  The
\* client keeps nothing from one call to the next (C10, under SpecSession),
\* so what a call sends and returns is decided by the constructor's
\* arguments, the call's arguments and the answer alone.
StoreMemoryCall ==
    calls = 0 /\ StoreMemory(StoreArgs, Responses(GenericDocs))

ListMemoriesCall ==
    calls = 0 /\ ListMemories(ListArgs, Responses(GenericDocs))

SearchCall ==
    calls = 0 /\ Search(SearchArgs, Responses(GenericDocs))

ScoreCaptureCall ==
    calls = 0 /\ ScoreCapture(ScoreArgs, Responses(ScoreDocs))

ListCaptureCandidatesCall ==
    calls = 0 /\ ListCaptureCandidates(CandidateArgs, Responses(CandidateDocs))

ApproveCaptureCandidateCall ==
    calls = 0 /\ ApproveCaptureCandidate(ApproveArgs, Responses(GenericDocs))

RejectCaptureCandidateCall ==
    calls = 0 /\ RejectCaptureCandidate(RejectArgs, Responses(GenericDocs))

Next ==
    \/ StoreMemoryCall
    \/ ListMemoriesCall
    \/ SearchCall
    \/ ScoreCaptureCall
    \/ ListCaptureCandidatesCall
    \/ ApproveCaptureCandidateCall
    \/ RejectCaptureCandidateCall

Spec == Init /\ [][Next]_vars

\* SpecSession: a client and a sequence of calls on it, over a few inputs of
\* each kind: with and without a subject override, answered by a success, by
\* a success that does not decode, by a status >= 400 or by a transport
\* failure
SessionResponses(docs) ==
    {TransportFailure, Http(500, NotJson("oops"))} \cup {Http(200, d) : d \in docs}

SessionSubjects == {None, Str("bob")}

StoreMemoryInSession ==
    /\ calls < MaxCalls
    /\ StoreMemory({a \in StoreArgs : /\ a.content = Str("hello")
                                      /\ a.pinned = Bool(TRUE)
                                      /\ a.kwargs \in {Map(EmptyMap), Map([subject_id |-> Str("bob")])}},
                   SessionResponses({Map([data |-> Memory])}))

ListMemoriesInSession ==
    /\ calls < MaxCalls
    /\ ListMemories({a \in ListArgs : /\ a.limit = Num(50)
                                      /\ a.subject_id \in SessionSubjects
                                      /\ a.filters = Map(EmptyMap)},
                    SessionResponses({Map([data |-> List(<<Memory>>)])}))

SearchInSession ==
    /\ calls < MaxCalls
    /\ Search({a \in SearchArgs : a.subject_id \in SessionSubjects /\ a.options = Map(EmptyMap)},
              SessionResponses({List(<<Memory>>)}))

ScoreCaptureInSession ==
    /\ calls < MaxCalls
    /\ ScoreCapture({a \in ScoreArgs : /\ a.events = <<>>
                                       /\ a.threshold = None
                                       /\ a.subject_id \in SessionSubjects},
                    SessionResponses({Map([results |-> List(rs)]) :
                                         rs \in SeqsUpTo(BadResults, 1)}))

ListCaptureCandidatesInSession ==
    /\ calls < MaxCalls
    /\ ListCaptureCandidates({a \in CandidateArgs : /\ a.status = Str("pending")
                                                     /\ a.subject_id \in SessionSubjects},
                             SessionResponses({Map([items |-> List(xs)]) :
                                                  xs \in SeqsUpTo({FullCandidate}, 1)}))

ApproveCaptureCandidateInSession ==
    /\ calls < MaxCalls
    /\ ApproveCaptureCandidate({a \in ApproveArgs : /\ a.candidate_id = <<"abc123">>
                                                     /\ a.overrides = None
                                                     /\ a.subject_id \in SessionSubjects},
                               SessionResponses({Map([data |-> Memory])}))

RejectCaptureCandidateInSession ==
    /\ calls < MaxCalls
    /\ RejectCaptureCandidate({a \in RejectArgs : /\ a.candidate_id = <<"abc123">>
                                                   /\ a.reason = None
                                                   /\ a.subject_id \in SessionSubjects},
                              SessionResponses({Map([data |-> Memory])}))

NextSession ==
    \/ StoreMemoryInSession
    \/ ListMemoriesInSession
    \/ SearchInSession
    \/ ScoreCaptureInSession
    \/ ListCaptureCandidatesInSession
    \/ ApproveCaptureCandidateInSession
    \/ RejectCaptureCandidateInSession

SpecSession == Init /\ [][NextSession]_vars

-----------------------------------------------------------------------------
(* Properties *)

Called(name) == calls > 0 /\ last_call.name = name

PublicMethods ==
    { "store_memory", "list_memories", "search", "score_capture",
      "list_capture_candidates", "approve_capture_candidate", "reject_capture_candidate" }

\* the subject the caller supplied with the latest call, None when it supplied none
SubjectSupplied ==
    IF last_call.name = "store_memory"
    THEN DictGet(last_call.args.kwargs, "subject_id", None)
    ELSE last_call.args.subject_id

\* the latest call was answered by an HTTP response below 400 with a JSON body
Answered ==
    /\ calls > 0
    /\ last_response.kind = "http"
    /\ last_response.status_code < 400
    /\ last_response.text.t # "notjson"

\* the parsed body of the latest response and what the envelope rule makes of it
Body == last_response.text
Unwrapped == IF Body.t = "map" /\ "data" \in DOMAIN Body.v THEN Body.v["data"] ELSE Body

\* C1: every request of every public method carries the key, org and project
\* given to the constructor, and as subject the subject supplied with the
\* call when one was supplied, the constructor's default subject otherwise.
C1_IdentifyingHeaders ==
    calls > 0 =>
        \A i \in 1..Len(last_request) :
            LET h == last_request[i].headers
            IN  /\ h.XCapsuleKey = ctor.api_key
                /\ h.XCapsuleOrg = ctor.org_id
                /\ h.XCapsuleProject = ctor.project_id
                /\ h.XCapsuleSubject =
                       IF SubjectSupplied # None THEN SubjectSupplied
                       ELSE ctor.default_subject_id

\* C2: an HTTP status of 400 or more makes every method raise the RuntimeError
\* whose message carries that status and that response text, and return
\* nothing; a status below 400 never raises it.
C2_RequestFailed ==
    (calls > 0 /\ last_response.kind = "http") =>
        IF last_response.status_code >= 400
        THEN /\ last_call.name \in PublicMethods
             /\ outcome.kind = "raise"
             /\ outcome.exc = "RuntimeError"
             /\ outcome.value[2] = last_response.status_code
             /\ outcome.value[4] = last_response.text
        ELSE outcome.exc # "RuntimeError"

C2_Witness ==
    /\ Called("list_capture_candidates")
    /\ last_response.kind = "http"
    /\ last_response.status_code = 599
    /\ last_response.text = NotJson("oops")
    /\ outcome = Raise("RuntimeError", <<"Capsule request failed (", 599, "): ", NotJson("oops")>>)

\* C3: for a successful response every method works on the value under
\* `data` when the body is a mapping with a `data` key, and on the whole
\* body otherwise; the untyped methods return it, the typed ones decode it.
C3_EnvelopeUnwrapped ==
    Answered =>
        CASE last_call.name = "score_capture" ->
                 outcome = CaptureScoreResponse(Unwrapped, last_call.args.threshold)
          [] last_call.name = "list_capture_candidates" ->
                 outcome = CaptureCandidates(Unwrapped)
          [] OTHER -> outcome = Return(Unwrapped)

C3_Witness ==
    /\ Called("search")
    /\ Answered
    /\ Body = Map(EmptyMap)
    /\ outcome = Return(Map(EmptyMap))

\* C4: score_capture returns the server's threshold when the unwrapped
\* response has one; when it has none it returns 0.6 if no threshold was
\* passed and the passed threshold otherwise, 0 included.
C4_ThresholdFallback ==
    (Called("score_capture") /\ outcome.kind = "return") =>
        outcome.value.threshold =
            IF "threshold" \in DOMAIN Unwrapped.v THEN Unwrapped.v["threshold"]
            ELSE IF last_call.args.threshold = None THEN Num(DefaultThreshold)
            ELSE last_call.args.threshold

\* the element x of a `results` / `items` list lacks one of the fields
Lacks(x, required) == \E i \in 1..Len(required) : required[i] \notin DOMAIN x.v

\* the unwrapped response of the latest call is a mapping whose list under
\* key holds an element that lacks a required field
Malformed(key, required) ==
    /\ Answered
    /\ Unwrapped.t = "map"
    /\ key \in DOMAIN Unwrapped.v
    /\ \E i \in 1..Len(Unwrapped.v[key].v) : Lacks(Unwrapped.v[key].v[i], required)

\* C5: when an element of `results` (score_capture) or of `items`
\* (list_capture_candidates) lacks a required field, the call raises KeyError
\* and returns no list, wherever the element sits.
C5_DecodeFailsWhole ==
    /\ (Called("score_capture") /\ Malformed("results", ResultRequired)) =>
           (outcome.kind = "raise" /\ outcome.exc = "KeyError")
    /\ (Called("list_capture_candidates") /\ Malformed("items", CandidateRequired)) =>
           (outcome.kind = "raise" /\ outcome.exc = "KeyError")

C5_Witness ==
    /\ Called("list_capture_candidates")
    /\ Malformed("items", CandidateRequired)
    /\ Len(Unwrapped.v["items"].v) = 2
    /\ ~Lacks(Unwrapped.v["items"].v[1], CandidateRequired)
    /\ outcome = Raise("KeyError", "threshold")

\* every element of the `items` list has the required fields and none of
\* reasons, metadata, autoAccepted
BareItems(items) ==
    \A i \in 1..Len(items) :
        /\ ~Lacks(items[i], CandidateRequired)
        /\ DOMAIN items[i].v \cap {"reasons", "metadata", "autoAccepted"} = {}

\* C6: list_capture_candidates returns one record per element of `items`, in
\* order, with reasons [], metadata {} and auto_accepted false where the
\* element has none of the three; and the empty list when there is no `items`.
C6_CandidateDefaults ==
    (Called("list_capture_candidates") /\ Answered /\ Unwrapped.t = "map") =>
        IF "items" \notin DOMAIN Unwrapped.v
        THEN outcome = Return(List(<<>>))
        ELSE LET items == Unwrapped.v["items"].v
             IN  BareItems(items) =>
                     /\ outcome.kind = "return"
                     /\ Len(outcome.value.v) = Len(items)
                     /\ \A i \in 1..Len(items) :
                            /\ outcome.value.v[i].id = items[i].v["id"]
                            /\ outcome.value.v[i].reasons = List(<<>>)
                            /\ outcome.value.v[i].metadata = Map(EmptyMap)
                            /\ outcome.value.v[i].auto_accepted = Bool(FALSE)

C6_Witness ==
    /\ Called("list_capture_candidates")
    /\ Answered
    /\ Unwrapped.t = "map"
    /\ "items" \in DOMAIN Unwrapped.v
    /\ BareItems(Unwrapped.v["items"].v)
    /\ Len(Unwrapped.v["items"].v) = 2
    /\ outcome.kind = "return"
    /\ outcome.value.v[1].id = Str("c2")
    /\ outcome.value.v[2].id = Str("c1")

\* C7: k calls hand exactly k requests to the session, one per call, and a
\* call answered by a transport failure, by a status of 400 or more or by a
\* response that does not decode raises to its caller.
C7_OneRequestPerCall ==
    /\ Len(sent) = calls
    /\ calls > 0 => Len(last_request) = 1
    /\ (calls > 0 /\ (last_response.kind = "raise" \/ last_response.status_code >= 400)) =>
           outcome.kind = "raise"
    /\ (Called("score_capture") /\ Malformed("results", ResultRequired)) =>
           outcome.kind = "raise"

C7_Witness ==
    /\ calls = 3
    /\ Len(sent) = 3
    /\ last_response.kind = "raise"
    /\ outcome = Raise("RequestException", None)

\* the path /v1/memories/capture/{id}/approve
ApprovePath(id) ==
    <<"/", "v1", "/", "memories", "/", "capture", "/">> \o id \o <<"/", "approve">>

\* C8 as stated: approve_capture_candidate POSTs to
\* /v1/memories/capture/{id}/approve with body {"memory": null} when no
\* overrides are given and {"memory": overrides} when they are.
C8_ApproveBodyAsStated ==
    Called("approve_capture_candidate") =>
        /\ last_request[1].method = "POST"
        /\ last_request[1].url = self._base \o ApprovePath(last_call.args.candidate_id)
        /\ last_request[1].json =
               IF last_call.args.overrides = None THEN Map([memory |-> None])
               ELSE Map([memory |-> last_call.args.overrides])

\* C8 amended: approve_capture_candidate POSTs to
\* /v1/memories/capture/{id}/approve with body {"memory": null} when no
\* overrides or an empty overrides mapping is given, and {"memory": overrides}
\* when a non-empty overrides mapping is given.
C8_ApproveBody ==
    Called("approve_capture_candidate") =>
        /\ last_request[1].method = "POST"
        /\ last_request[1].url = self._base \o ApprovePath(last_call.args.candidate_id)
        /\ last_request[1].json =
               IF last_call.args.overrides \in {None, Map(EmptyMap)}
               THEN Map([memory |-> None])
               ELSE Map([memory |-> last_call.args.overrides])

C8_Witness ==
    /\ Called("approve_capture_candidate")
    /\ last_call.args.overrides = Map(EmptyMap)
    /\ last_call.args.candidate_id = <<"x", "/", "y">>
    /\ last_request[1].json = Map([memory |-> None])

\* C9: store_memory sends the extra fields together with content and pinned,
\* content and pinned holding the named arguments, and returns the value
\* under `data` of a successful response as it is.
C9_StoreBody ==
    Called("store_memory") =>
        LET body == last_request[1].json
            extra == last_call.args.kwargs
        IN  /\ body.t = "map"
            /\ DOMAIN body.v = {"content", "pinned"} \cup DOMAIN extra.v
            /\ body.v["content"] = last_call.args.content
            /\ body.v["pinned"] = last_call.args.pinned
            /\ \A k \in DOMAIN extra.v : body.v[k] = extra.v[k]
            /\ (Answered /\ Body.t = "map" /\ "data" \in DOMAIN Body.v) =>
                   outcome = Return(Body.v["data"])

C9_Witness ==
    /\ Called("store_memory")
    /\ last_call.args.content = Str("hello")
    /\ last_call.args.pinned = Bool(TRUE)
    /\ last_call.args.kwargs = Map(EmptyMap)
    /\ last_request[1].json = Map([content |-> Str("hello"), pinned |-> Bool(TRUE)])
    /\ Answered
    /\ outcome = Return(Memory)

\* C10: the client's attributes stay what the constructor made them, every
\* request goes through the client's one session, and a call without a
\* subject override sends the default subject whatever the earlier calls
\* supplied.
C10_ConfigurationFixed ==
    /\ self = CapsuleMemoryClient(ctor.base_url, ctor.api_key, ctor.org_id,
                                  ctor.project_id, ctor.default_subject_id, ctor.session)
    /\ \A i \in 1..Len(sent) : sent[i].session = self._session
    /\ (calls > 0 /\ ~Truthy(SubjectSupplied)) =>
           sent[Len(sent)].subject = ctor.default_subject_id

C10_Witness ==
    /\ calls = 3
    /\ sent[1].subject = Str("bob")
    /\ sent[2].subject = Str("bob")
    /\ sent[3].subject = Str("alice")
    /\ last_call.name = "search"
    /\ ctor.session = None
    /\ outcome.kind = "raise"

====
